---------------------------- MODULE Spec2Model ----------------------------
(***************************************************************************)
(* A model of src/modes.rs: the three interactive flows dispatched by      *)
(* Mode::execute.  Each action is one step of a handler between two calls  *)
(* to an external collaborator (git, ui, the generation backend); the     *)
(* outcome of a collaborator call is an input chosen with \E.              *)
(*                                                                         *)
(* Text is modelled by TLA+ strings, which are sequences of characters:    *)
(* Len, SubSeq and \o are the only string operations used.  Glyphs outside *)
(* ASCII in the source's literals are written "*".  An Option value is a   *)
(* sequence of length 0 (None) or 1 (Some).                                *)
(***************************************************************************)
EXTENDS Naturals, Sequences, FiniteSets

VARIABLES
    mode,            \* the Mode being executed
    pc,              \* position in the handler
    result,          \* "running", or the handler's return: "Ok" / "Err"
    error,           \* the error returned with Err, as an Option
    spinner,         \* the progress indicator: "none", "spinning", "cleared"
    section,         \* title of the last ui::print_section call
    status,          \* the last status line written with println!
    markdown,        \* the blocks ui::print_markdown has put on the screen
    calls,           \* how often each collaborator was invoked
    last_call,       \* history: the collaborator invoked last
    failure,         \* history: <<>>, or <<collaborator, error text, number
                     \*   of calls made so far>> of the last call that failed
    chosen,          \* history: label of the option last selected in a menu
    answered,        \* history: <<menu, index>> of the last menu selection
    \* handle_commit_message
    diff,            \* Ok(diff) of git::get_diff, as an Option
    commit_message,  \* the loop-local commit_message (line 37)
    new_message,     \* the local new_message (line 62)
    generated,       \* history: text returned by the last generate_commit_message
    redrafts,        \* history: how often Regenerate or Start over was chosen
    presented,       \* history: the commit message text last printed
    requested,       \* history: per generate_commit_message call, the
                     \*   menu choice that led to it ("" for the first)
    committed,       \* history: per git::stage_and_commit call, the message
                     \*   passed, the choice and the call before it
    \* handle_contributor_analysis
    contributors,    \* the Vec returned by git::get_contributors (line 133)
    contributor_items, \* the menu entries built at lines 137-140
    subsection,      \* title of the last ui::print_subsection call
    selection,       \* the loop-local selection (line 143), as an Option
    contributor,     \* the loop-local contributor (line 149), as an Option
    commits,         \* the commits of format_contributor_stats (line 211)
    stats,           \* the loop-local report text (line 152)
    views,           \* history: how often a contributor entry was selected
    analyzed         \* history: reports passed to analyze_contributor

commonVars == <<mode, pc, result, error, spinner, section, status, markdown,
                calls, last_call, failure, chosen, answered>>
commitVars == <<diff, commit_message, new_message, generated, presented,
                redrafts, requested, committed>>
contribVars == <<contributors, contributor_items, subsection, selection,
                 contributor,
                 commits, stats, views, analyzed>>

vars == <<commonVars, commitVars, contribVars>>

---------------------------------------------------------------------------
(* Bounds of the model *)

\* longest draft drawn from the alphabet
MaxLen == 3
\* most calls of generate_commit_message in one run
MaxGen == 3
\* longest list git::get_contributors returns
MaxContrib == 3
\* most contributors viewed in one browsing session
MaxViews == 2
\* longest list git::get_contributor_commits returns
MaxCommits == 6
\* most files config.analyze_changes reports on
MaxFiles == 2

---------------------------------------------------------------------------
(* Strings *)

\* characters the backend's drafts are drawn from
Chars == {"a", ":", " "}

RECURSIVE Strs(_)
Strs(n) == IF n = 0 THEN {""}
           ELSE LET S == Strs(n - 1) IN S \cup {s \o c : s \in S, c \in Chars}

\* drafts of the spec's examples, beside every short string over Chars
ExampleDrafts == {"feat: add retry logic", "improve performance overall",
                  "fix: parse host:port pairs", "  docs : update readme\n",
                  "feat:\fadd retry\f"}

Drafts == Strs(MaxLen) \cup ExampleDrafts

\* char::is_whitespace (Unicode White_Space), on the one-character strings
\* of this model: space, tab, line feed, vertical tab, form feed, return
IsWhitespace(c) == c \in {" ", "\t", "\n", "", "\f", "\r"}

\* index of the first ':' of s, 0 when there is none
FirstColon(s) ==
    LET I == {i \in 1..Len(s) : SubSeq(s, i, i) = ":"}
    IN IF I = {} THEN 0 ELSE CHOOSE i \in I : \A j \in I : i <= j

\* str::split(':') collected: the segments between the colons
RECURSIVE Split(_)
Split(s) ==
    LET i == FirstColon(s)
    IN IF i = 0 THEN <<s>>
       ELSE <<SubSeq(s, 1, i - 1)>> \o Split(SubSeq(s, i + 1, Len(s)))

\* Iterator::nth(n) on a collected iterator (next() is nth(0))
Nth(segs, n) == IF n + 1 <= Len(segs) THEN <<segs[n + 1]>> ELSE <<>>

\* Option::unwrap_or
UnwrapOr(opt, default) == IF opt = <<>> THEN default ELSE opt[1]

\* str::trim: drop leading and trailing whitespace
Trim(s) ==
    LET I == {i \in 1..Len(s) : ~IsWhitespace(SubSeq(s, i, i))}
    IN IF I = {} THEN ""
       ELSE LET lo == CHOOSE i \in I : \A j \in I : i <= j
                hi == CHOOSE i \in I : \A j \in I : j <= i
            IN SubSeq(s, lo, hi)

---------------------------------------------------------------------------
(* handle_commit_message: menus and the type edit *)

\* the main menu's options (lines 39-44)
options == <<"* Regenerate message", "* Edit commit type",
             "* Stage and commit", "* Cancel">>

\* the commit types offered (lines 49-57)
types == <<"feat: * New feature", "fix: * Bug fix", "docs: * Documentation",
           "style: * Formatting", "refactor: * Code restructure",
           "test: * Testing", "chore: * Maintenance">>

\* the confirmation menu's options (lines 67-71)
confirm_options == <<"* Confirm and commit", "* Start over", "* Cancel">>

\* indices ui::show_selection_menu can return for a menu of n items
MenuRange(n) == 0..(n - 1)

\* the selections the matches at lines 46 and 72 provide an arm for: every
\* usize; the index one past the menu stands for those that are no entry
AnyIndex(n) == 0..n

\* the entry of the menu items a selection names ("" when it names none)
Label(items, sel) == IF sel < Len(items) THEN items[sel + 1] ELSE ""

\* a variant of SelectedType that takes the whole menu label
SelectedTypeLabel(type_idx) == types[type_idx + 1]
\* line 60: types[type_idx].split(':').next().unwrap()
SelectedType(type_idx) == Nth(Split(types[type_idx + 1]), 0)[1]

\* a variant of Description that falls back to the empty text
DescriptionNoFallback(msg) == Trim(UnwrapOr(Nth(Split(msg), 1), ""))
\* line 61: commit_message.split(':').nth(1).unwrap_or(&commit_message).trim()
Description(msg) == Trim(UnwrapOr(Nth(Split(msg), 1), msg))

\* line 62: format!("{}: {}", selected_type, description)
NewMessage(type_idx, msg) == SelectedType(type_idx) \o ": " \o Description(msg)

\* a variant of MainArm whose catch-all arm commits
MainArmCommitByDefault(sel) == CASE sel = 0 -> "continue"
                                 [] sel = 1 -> "edit"
                                 [] OTHER   -> "commit"

\* a variant of MainArm whose edit arm drafts again
MainArmEditRegenerates(sel) == CASE sel = 0 -> "continue"
                                 [] sel = 1 -> "continue"
                                 [] sel = 2 -> "commit"
                                 [] OTHER   -> "break"

\* the arm of the main menu's match taken for a selection (lines 46-88)
MainArm(sel) == CASE sel = 0 -> "continue"
                  [] sel = 1 -> "edit"
                  [] sel = 2 -> "commit"
                  [] OTHER   -> "break"

\* a variant of ConfirmArm whose catch-all arm commits
ConfirmArmCommitByDefault(sel) == CASE sel = 1 -> "continue"
                                    [] OTHER   -> "commit"

\* the arm of the confirmation menu's match (lines 72-80)
ConfirmArm(sel) == CASE sel = 0 -> "commit"
                     [] sel = 1 -> "continue"
                     [] OTHER   -> "break"

\* the error text compared at lines 93 and 121
NoChanges == "No changes to commit"
\* a variant of IsNoChanges that takes every error for the benign one
IsNoChangesAlways(e) == TRUE

\* a variant of IsNoChanges that recognises no error
IsNoChangesNever(e) == FALSE
\* lines 93 and 121: e.to_string() == "No changes to commit"
IsNoChanges(e) == e = NoChanges
\* texts of the other errors the collaborators return
AccessError == "repository access failed"
BackendError == "backend request failed"
TerminalError == "terminal i/o failed"

---------------------------------------------------------------------------
(* handle_contributor_analysis: data and formatting *)

\* Display of an unsigned integer, as format!("{}", n) writes it
Digit(d) == SubSeq("0123456789", d + 1, d + 1)

RECURSIVE ToString(_)
ToString(n) == IF n < 10 THEN Digit(n)
               ELSE ToString(n \div 10) \o Digit(n % 10)

\* [String]::join(sep)
RECURSIVE Join(_, _)
Join(strs, sep) == IF strs = <<>> THEN ""
                   ELSE IF Len(strs) = 1 THEN strs[1]
                   ELSE strs[1] \o sep \o Join(Tail(strs), sep)

\* a variant of Take that keeps the whole sequence
TakeAll(seq, n) == seq

\* Iterator::take(n), collected
Take(seq, n) == SubSeq(seq, 1, IF Len(seq) < n THEN Len(seq) ELSE n)

\* git::ContributorStats values a repository can hold (fields read at
\* lines 138 and 245-271); a collection is given in its iteration order
People == <<
    [name |-> "alice", email |-> "alice@example.org", commit_count |-> 12,
     additions |-> 340, deletions |-> 25,
     files_changed |-> <<"src/main.rs", "README.md">>,
     most_modified_files |-> << <<"src/main.rs", 9>>, <<"README.md", 3>> >>,
     file_types |-> << <<"rs", 1>>, <<"md", 1>> >>,
     largest_commits |-> << <<200, 10, "initial import">>,
                            <<90, 15, "fix: retry">> >>],
    [name |-> "bob", email |-> "bob@example.org", commit_count |-> 1,
     additions |-> 0, deletions |-> 0,
     files_changed |-> <<>>,
     most_modified_files |-> <<>>,
     file_types |-> <<>>,
     largest_commits |-> <<>>],
    [name |-> "carol", email |-> "carol@example.org", commit_count |-> 107,
     additions |-> 5, deletions |-> 1200,
     files_changed |-> <<"Makefile">>,
     most_modified_files |-> << <<"Makefile", 107>> >>,
     file_types |-> << <<"", 1>> >>,
     largest_commits |-> << <<0, 600, "chore: prune">> >>] >>

\* the lists git::get_contributors can return: each identity at most once
ContributorLists ==
    {l \in UNION {[1..n -> 1..Len(People)] : n \in 0..MaxContrib} :
        \A i, j \in 1..Len(l) : l[i] = l[j] => i = j}

\* the collections of a git::ContributorStats the report lists (lines 251-271)
Collections == {"files_changed", "most_modified_files", "file_types",
                "largest_commits"}

\* the contributor c with the collections named in empty left empty
Emptied(c, empty) ==
    [f \in DOMAIN c |-> IF f \in empty THEN <<>> ELSE c[f]]

\* contributors with any or all collections empty; one who changed no file
\* has no modified file and no file type
SparsePeople ==
    {Emptied(People[1], empty) : empty \in
        {e \in SUBSET Collections :
            "files_changed" \in e =>
                {"most_modified_files", "file_types"} \subseteq e}}

\* the values git::get_contributors can return (line 133)
Repositories ==
    {[i \in 1..Len(l) |-> People[l[i]]] : l \in ContributorLists}
        \cup {<<c>> : c \in SparsePeople}

\* the commit summaries git::get_contributor_commits can return
CommitSummary(k) == "commit " \o ToString(k)
CommitLists == {[i \in 1..n |-> CommitSummary(i)] : n \in 0..MaxCommits}

\* line 138: the menu entry of a contributor
ContributorItem(c) ==
    c.name \o " <" \o c.email \o "> (" \o ToString(c.commit_count) \o " commits)"

\* lines 137-140: the menu entries, the exit entry pushed last
ContributorItems(cs) ==
    Append([i \in 1..Len(cs) |-> ContributorItem(cs[i])], "* Exit")

\* a variant of IsExit that is off by one
IsExitPastEnd(sel, items) == sel = Len(items)
\* line 145: selection == contributor_items.len() - 1
IsExit(sel, items) == sel = Len(items) - 1

\* how many commits enter the report (lines 218 and 264)
RecentCount == 5

ModifiedFileLine(p) == "- " \o p[1] \o " (" \o ToString(p[2]) \o " modifications)"
FileTypeLine(p) == "- " \o p[1] \o ": " \o ToString(p[2]) \o " files"
LargestCommitLine(t) ==
    "- +" \o ToString(t[1]) \o " -" \o ToString(t[2]) \o " : " \o t[3]
ListLine(x) == "- " \o x

\* lines 251-271: the lines of the report's five lists
ModifiedFileLines(c) ==
    [i \in 1..Len(c.most_modified_files) |->
        ModifiedFileLine(c.most_modified_files[i])]
FileTypeLines(c) ==
    [i \in 1..Len(c.file_types) |-> FileTypeLine(c.file_types[i])]
LargestCommitLines(c) ==
    [i \in 1..Len(c.largest_commits) |->
        LargestCommitLine(c.largest_commits[i])]
RecentCommitLines(list) ==
    LET recent == Take(list, RecentCount)
    IN [i \in 1..Len(recent) |-> ListLine(recent[i])]
ModifiedLines(c) ==
    [i \in 1..Len(c.files_changed) |-> ListLine(c.files_changed[i])]

\* a variant of Report that leaves out the section of an empty
\* largest_commits
ReportOmittingEmpty(c, list) ==
    "## Contributor: " \o c.name \o " <" \o c.email \o ">\n\n"
    \o "### Statistics\n"
    \o "- Total commits: " \o ToString(c.commit_count) \o "\n"
    \o "- Lines added: " \o ToString(c.additions) \o "\n"
    \o "- Lines deleted: " \o ToString(c.deletions) \o "\n"
    \o "- Files modified: " \o ToString(Len(c.files_changed)) \o "\n\n"
    \o "### Most frequently modified files\n"
    \o Join(ModifiedFileLines(c), "\n") \o "\n\n"
    \o "### File type distribution\n"
    \o Join(FileTypeLines(c), "\n") \o "\n\n"
    \o (IF c.largest_commits = <<>> THEN ""
        ELSE "### Largest contributions\n"
             \o Join(LargestCommitLines(c), "\n") \o "\n\n")
    \o "### Recent commits\n"
    \o Join(RecentCommitLines(list), "\n") \o "\n\n"
    \o "### Modified files\n"
    \o Join(ModifiedLines(c), "\n")

\* lines 222-272: the report text of format_contributor_stats
Report(c, list) ==
    "## Contributor: " \o c.name \o " <" \o c.email \o ">\n\n"
    \o "### Statistics\n"
    \o "- Total commits: " \o ToString(c.commit_count) \o "\n"
    \o "- Lines added: " \o ToString(c.additions) \o "\n"
    \o "- Lines deleted: " \o ToString(c.deletions) \o "\n"
    \o "- Files modified: " \o ToString(Len(c.files_changed)) \o "\n\n"
    \o "### Most frequently modified files\n"
    \o Join(ModifiedFileLines(c), "\n") \o "\n\n"
    \o "### File type distribution\n"
    \o Join(FileTypeLines(c), "\n") \o "\n\n"
    \o "### Largest contributions\n"
    \o Join(LargestCommitLines(c), "\n") \o "\n\n"
    \o "### Recent commits\n"
    \o Join(RecentCommitLines(list), "\n") \o "\n\n"
    \o "### Modified files\n"
    \o Join(ModifiedLines(c), "\n")

---------------------------------------------------------------------------
(* handle_file_analysis: data *)

\* the analyses config.analyze_changes can return
FileAnalyses == <<[path |-> "src/main.rs", explanation |-> "adds a retry loop"],
                  [path |-> "README.md", explanation |-> "documents the flag"],
                  [path |-> "Makefile", explanation |-> "adds a lint target"]>>
AnalysisLists ==
    {[i \in 1..n |-> FileAnalyses[((i - 1) % Len(FileAnalyses)) + 1]] :
        n \in 0..MaxFiles}

\* line 114: the markdown block of one analysis
AnalysisMarkdown(a) == "## * " \o a.path \o "\n" \o a.explanation

---------------------------------------------------------------------------
(* State *)

\* the variants of Mode (lines 9-13)
Modes == {"CommitMessage", "FileAnalysis", "ContributorAnalysis"}

Collaborators == {"get_diff", "create_spinner", "generate_commit_message",
                  "show_selection_menu", "stage_and_commit", "analyze_changes",
                  "get_contributors", "get_contributor_commits",
                  "analyze_contributor", "read_line"}

\* the number of collaborator calls counted in c
Total(c) ==
    c.get_diff + c.create_spinner + c.generate_commit_message
    + c.show_selection_menu + c.stage_and_commit + c.analyze_changes
    + c.get_contributors + c.get_contributor_commits + c.analyze_contributor
    + c.read_line

\* the step invokes the collaborators ops, in this order
Invoke(ops) ==
    /\ calls' = [op \in Collaborators |->
                   calls[op] + Cardinality({i \in 1..Len(ops) : ops[i] = op})]
    /\ last_call' = ops[Len(ops)]

\* the call of op made in this step fails with e / every call made succeeds
Fails(op, e) == failure' = <<op, e, Total(calls')>>
Succeeds == UNCHANGED failure

Init ==
    /\ mode \in Modes
    /\ pc = "execute"
    /\ result = "running"
    /\ error = <<>>
    /\ spinner = "none"
    /\ section = ""
    /\ status = ""
    /\ markdown = <<>>
    /\ calls = [op \in Collaborators |-> 0]
    /\ last_call = ""
    /\ failure = <<>>
    /\ chosen = ""
    /\ answered = <<>>
    /\ diff = <<>>
    /\ commit_message = ""
    /\ new_message = ""
    /\ generated = ""
    /\ presented = ""
    /\ redrafts = 0
    /\ requested = <<>>
    /\ committed = <<>>
    /\ contributors = <<>>
    /\ contributor_items = <<>>
    /\ subsection = ""
    /\ selection = <<>>
    /\ contributor = <<>>
    /\ commits = <<>>
    /\ stats = ""
    /\ views = 0
    /\ analyzed = <<>>

\* return Ok(()) from the handler
ReturnOk == /\ result' = "Ok"
            /\ error' = <<>>
            /\ pc' = "done"

\* return Err(e) from the handler, as the ? operator does
ReturnErr(e) == /\ result' = "Err"
                /\ error' = <<e>>
                /\ pc' = "done"

\* an index out of bounds: the thread panics
Panic == /\ result' = "Panic"
         /\ error' = <<"index out of bounds">>
         /\ pc' = "done"

\* the handler goes on at position p
Goto(p) == /\ pc' = p
           /\ UNCHANGED <<result, error>>

---------------------------------------------------------------------------
(* handle_commit_message *)

\* line 34: git::get_diff(repo), and the Err arm (lines 92-100)
GetDiff ==
    /\ pc = "execute" /\ mode = "CommitMessage"
    /\ Invoke(<<"get_diff">>)
    /\ \E r \in {<<"Ok", "diff">>, <<"Err", NoChanges>>, <<"Err", AccessError>>} :
         IF r[1] = "Ok"
         THEN /\ Succeeds
              /\ diff' = <<r[2]>>
              /\ Goto("generate")
              /\ UNCHANGED <<section, status>>
         ELSE /\ Fails("get_diff", r[2])
              /\ UNCHANGED diff
              /\ IF IsNoChanges(r[2])
                 THEN /\ section' = "* Repository Status"
                      /\ status' = "No changes to commit. Your working directory is clean.\n"
                      /\ ReturnOk
                 ELSE /\ ReturnErr(r[2])
                      /\ UNCHANGED <<section, status>>
    /\ UNCHANGED <<mode, spinner, markdown, chosen, answered, commit_message,
                   new_message, generated, presented, redrafts, requested,
                   committed, contribVars>>

\* a variant of LoopMessage that keeps the first draft
LoopMessageKept(previous, fresh) == IF previous = "" THEN fresh ELSE previous
\* line 37: let commit_message = ...: each pass of the loop binds a fresh
\* commit_message to the text just generated
LoopMessage(previous, fresh) == fresh

\* a variant of GenerateFailed that tries again
GenerateFailedRetried(e) == Goto("generate")
\* lines 37 and 170: the ? on a failed generate_commit_message
GenerateFailed(e) == ReturnErr(e)

\* lines 37, 169-170: generate_with_spinner creates the progress indicator
\* and calls the backend; the handler is suspended at the .await
Generate ==
    /\ pc = "generate"
    /\ calls.generate_commit_message < MaxGen
    /\ \/ /\ Invoke(<<"create_spinner">>)
          /\ Fails("create_spinner", TerminalError)
          /\ ReturnErr(TerminalError)
          /\ UNCHANGED <<spinner, requested>>
       \/ /\ Invoke(<<"create_spinner", "generate_commit_message">>)
          /\ Succeeds
          /\ spinner' = "spinning"
          /\ requested' = Append(requested, chosen)
          /\ Goto("generating")
    /\ UNCHANGED <<mode, section, status, markdown, chosen, answered, diff,
                   commit_message, new_message, generated, presented,
                   redrafts, committed, contribVars>>

\* lines 170-176: the backend call returns; on Ok the indicator is cleared
\* and the draft printed, on Err the ? returns at once
GenerateResume ==
    /\ pc = "generating"
    /\ UNCHANGED <<calls, last_call>>
    /\ \E r \in ({"Ok"} \X Drafts) \cup {<<"Err", BackendError>>} :
         IF r[1] = "Ok"
         THEN /\ Succeeds
              /\ spinner' = "cleared"
              /\ section' = "* Generated Commit Message"
              /\ presented' = r[2]
              /\ generated' = r[2]
              /\ commit_message' = LoopMessage(commit_message, r[2])
              /\ Goto("main_menu")
         ELSE /\ Fails("generate_commit_message", r[2])
              /\ GenerateFailed(r[2])
              /\ UNCHANGED <<spinner, section, commit_message, generated,
                             presented>>
    /\ UNCHANGED <<mode, status, markdown, chosen, answered, diff,
                   new_message, redrafts, requested, committed, contribVars>>

\* line 46: the main menu and the arm taken
MainMenu ==
    /\ pc = "main_menu"
    /\ Invoke(<<"show_selection_menu">>)
    /\ \/ /\ Fails("show_selection_menu", TerminalError)
          /\ ReturnErr(TerminalError)
          /\ UNCHANGED <<chosen, answered, redrafts>>
       \/ \E sel \in AnyIndex(Len(options)) :
            /\ Succeeds
            /\ chosen' = Label(options, sel)
            /\ answered' = <<"main", sel>>
            /\ redrafts' = IF chosen' = "* Regenerate message"
                           THEN redrafts + 1 ELSE redrafts
            /\ CASE MainArm(sel) = "continue" -> Goto("generate")
                 [] MainArm(sel) = "edit"     -> Goto("type_menu")
                 [] MainArm(sel) = "commit"   -> Goto("commit_main")
                 [] OTHER                     -> ReturnOk
    /\ UNCHANGED <<mode, spinner, section, status, markdown, diff,
                   commit_message, new_message, generated, presented,
                   requested, committed, contribVars>>

\* lines 59-65: the type menu, the edit and its presentation
TypeMenu ==
    /\ pc = "type_menu"
    /\ Invoke(<<"show_selection_menu">>)
    /\ \/ /\ Fails("show_selection_menu", TerminalError)
          /\ ReturnErr(TerminalError)
          /\ UNCHANGED <<chosen, answered, new_message, section, presented>>
       \/ \E type_idx \in MenuRange(Len(types)) :
            /\ Succeeds
            /\ chosen' = Label(types, type_idx)
            /\ answered' = <<"type", type_idx>>
            /\ IF type_idx < Len(types)
               THEN /\ new_message' = NewMessage(type_idx, commit_message)
                    /\ section' = "* New Commit Message"
                    /\ presented' = new_message'
                    /\ Goto("confirm_menu")
               ELSE /\ Panic
                    /\ UNCHANGED <<new_message, section, presented>>
    /\ UNCHANGED <<mode, spinner, status, markdown, diff, commit_message,
                   generated, redrafts, requested, committed, contribVars>>

\* line 72: the confirmation menu and the arm taken
ConfirmMenu ==
    /\ pc = "confirm_menu"
    /\ Invoke(<<"show_selection_menu">>)
    /\ \/ /\ Fails("show_selection_menu", TerminalError)
          /\ ReturnErr(TerminalError)
          /\ UNCHANGED <<chosen, answered, redrafts>>
       \/ \E sel \in AnyIndex(Len(confirm_options)) :
            /\ Succeeds
            /\ chosen' = Label(confirm_options, sel)
            /\ answered' = <<"confirm", sel>>
            /\ redrafts' = IF chosen' = "* Start over"
                           THEN redrafts + 1 ELSE redrafts
            /\ CASE ConfirmArm(sel) = "commit"   -> Goto("commit_new")
                 [] ConfirmArm(sel) = "continue" -> Goto("generate")
                 [] OTHER                        -> ReturnOk
    \* new_message lives until the arm is left; the commit at line 74 reads it
    /\ new_message' = IF pc' = "commit_new" THEN new_message ELSE ""
    /\ UNCHANGED <<mode, spinner, section, status, markdown, diff,
                   commit_message, generated, presented, requested, committed,
                   contribVars>>

\* a variant of CommitArgument that always passes the generated draft
CommitArgumentGenerated == commit_message
\* the message handed to git::stage_and_commit at line 74 or line 83
CommitArgument == IF pc = "commit_new" THEN new_message ELSE commit_message

\* lines 74 and 83: the ? on a failed git::stage_and_commit
CommitFailed(e) == ReturnErr(e)

\* a variant of AfterCommit that drafts again
AfterCommitLoops == Goto("generate")

\* lines 76 and 85: the break after a commit, then Ok(()) at line 101
AfterCommit == ReturnOk

\* lines 74-76 and 83-85: git::stage_and_commit(repo, &message)?; break
StageAndCommit ==
    /\ pc \in {"commit_main", "commit_new"}
    /\ Invoke(<<"stage_and_commit">>)
    /\ committed' = Append(committed, [message |-> CommitArgument,
                                       confirmed_by |-> chosen,
                                       preceded_by |-> last_call])
    /\ \/ /\ Fails("stage_and_commit", AccessError)
          /\ CommitFailed(AccessError)
          /\ UNCHANGED status
       \/ /\ Succeeds
          /\ status' = "Changes committed successfully!"
          /\ AfterCommit
    /\ UNCHANGED <<mode, spinner, section, markdown, chosen, answered, diff,
                   commit_message, new_message, generated, presented, redrafts,
                   requested, contribVars>>

---------------------------------------------------------------------------
(* handle_file_analysis *)

\* lines 105-106: the progress indicator is created and the backend called;
\* the handler is suspended at the .await
AnalyzeChanges ==
    /\ pc = "execute" /\ mode = "FileAnalysis"
    /\ \/ /\ Invoke(<<"create_spinner">>)
          /\ Fails("create_spinner", TerminalError)
          /\ ReturnErr(TerminalError)
          /\ UNCHANGED spinner
       \/ /\ Invoke(<<"create_spinner", "analyze_changes">>)
          /\ Succeeds
          /\ spinner' = "spinning"
          /\ Goto("analyzing_changes")
    /\ UNCHANGED <<mode, section, status, markdown, chosen, answered,
                   commitVars, contribVars>>

\* lines 106-129: the backend call returns, the indicator is cleared, then
\* the result is matched
AnalyzeChangesResume ==
    /\ pc = "analyzing_changes"
    /\ UNCHANGED <<calls, last_call>>
    /\ spinner' = "cleared"
    /\ \E r \in ({"Ok"} \X AnalysisLists)
                  \cup {<<"Err", NoChanges>>, <<"Err", BackendError>>} :
         IF r[1] = "Ok"
         THEN /\ Succeeds
              /\ section' = "* File Analysis Results"
              /\ markdown' = [i \in 1..Len(r[2]) |-> AnalysisMarkdown(r[2][i])]
              /\ ReturnOk
              /\ UNCHANGED status
         ELSE /\ Fails("analyze_changes", r[2])
              /\ IF IsNoChanges(r[2])
                 THEN /\ section' = "* Repository Status"
                      /\ status' = "No changes to analyze. Your working directory is clean.\n"
                      /\ ReturnOk
                      /\ UNCHANGED markdown
                 ELSE /\ ReturnErr(r[2])
                      /\ UNCHANGED <<section, status, markdown>>
    /\ UNCHANGED <<mode, chosen, answered, commitVars, contribVars>>

---------------------------------------------------------------------------
(* handle_contributor_analysis *)

\* lines 133-140: git::get_contributors(repo)? and the menu entries
GetContributors ==
    /\ pc = "execute" /\ mode = "ContributorAnalysis"
    /\ Invoke(<<"get_contributors">>)
    /\ \/ /\ Fails("get_contributors", AccessError)
          /\ ReturnErr(AccessError)
          /\ UNCHANGED <<section, contributors, contributor_items>>
       \/ \E cs \in Repositories :
            /\ Succeeds
            /\ contributors' = cs
            /\ section' = "* Repository Contributors"
            /\ contributor_items' = ContributorItems(contributors')
            /\ Goto("list")
    /\ UNCHANGED <<mode, spinner, status, markdown, chosen, answered,
                   commitVars, subsection, selection, contributor, commits,
                   stats, views, analyzed>>

\* a variant of SelectedContributor that ignores the selection
SelectedContributorFirst(cs, sel) == cs[1]

\* line 149: &contributors[selection]
SelectedContributor(cs, sel) == cs[sel + 1]

\* lines 143-150: the list menu, the exit test, display_contributor_info
ContributorMenu ==
    /\ pc = "list"
    /\ Invoke(<<"show_selection_menu">>)
    /\ \/ /\ Fails("show_selection_menu", TerminalError)
          /\ ReturnErr(TerminalError)
          /\ UNCHANGED <<chosen, answered, selection, contributor, section,
                         subsection, views>>
       \/ \E sel \in MenuRange(Len(contributor_items)) :
            /\ sel = Len(contributor_items) - 1
                 \/ calls.get_contributor_commits < MaxViews
            /\ Succeeds
            /\ chosen' = Label(contributor_items, sel)
            /\ answered' = <<"list", sel>>
            /\ views' = IF chosen' = "* Exit" THEN views ELSE views + 1
            /\ selection' = <<sel>>
            /\ IF IsExit(sel, contributor_items)
               THEN /\ ReturnOk
                    /\ UNCHANGED <<contributor, section, subsection>>
               ELSE IF sel < Len(contributors)
               THEN /\ contributor' = <<SelectedContributor(contributors, sel)>>
                    /\ section' = "* Contributor Details: "
                                     \o contributor'[1].name
                    /\ subsection' = "* Largest Contributions"
                    /\ Goto("format")
               ELSE /\ Panic
                    /\ UNCHANGED <<contributor, section, subsection>>
    /\ UNCHANGED <<mode, spinner, status, markdown, commitVars, contributors,
                   contributor_items, commits, stats, analyzed>>

\* lines 152 and 215: the ? on a failed git::get_contributor_commits
CommitsFailed(e) == ReturnErr(e)

\* lines 152, 207-272: format_contributor_stats(contributor, repo)?
FormatContributorStats ==
    /\ pc = "format"
    /\ Invoke(<<"get_contributor_commits">>)
    /\ \/ /\ Fails("get_contributor_commits", AccessError)
          /\ CommitsFailed(AccessError)
          /\ UNCHANGED <<commits, stats, subsection>>
       \/ \E cl \in CommitLists :
            /\ Succeeds
            /\ commits' = cl
            /\ subsection' = "* Recent Commits"
            /\ stats' = Report(contributor[1], cl)
            /\ Goto("analyze")
    /\ UNCHANGED <<mode, spinner, section, status, markdown, chosen,
                   answered, commitVars, contributors, contributor_items,
                   selection, contributor, views, analyzed>>

\* a variant of AnalyzeFailed that skips the contributor
AnalyzeFailedSkipped(e) == Goto("list")
\* line 154: the ? on a failed config.analyze_contributor
AnalyzeFailed(e) == ReturnErr(e)

\* a variant of AnalyzeArgument that reuses the first report of the run
AnalyzeArgumentStale == IF analyzed = <<>> THEN stats ELSE analyzed[1]

\* line 154: the report handed to config.analyze_contributor
AnalyzeArgument == stats

\* lines 153-154: the progress indicator is created and the backend called
\* with the report; the handler is suspended at the .await
AnalyzeContributor ==
    /\ pc = "analyze"
    /\ \/ /\ Invoke(<<"create_spinner">>)
          /\ Fails("create_spinner", TerminalError)
          /\ ReturnErr(TerminalError)
          /\ UNCHANGED <<spinner, analyzed>>
       \/ /\ Invoke(<<"create_spinner", "analyze_contributor">>)
          /\ Succeeds
          /\ spinner' = "spinning"
          /\ analyzed' = Append(analyzed, AnalyzeArgument)
          /\ Goto("analyzing")
    /\ UNCHANGED <<mode, section, status, markdown, chosen, answered,
                   commitVars, contributors, contributor_items, subsection,
                   selection, contributor, commits, stats, views>>

\* lines 154-158: the backend call returns; on Ok the indicator is cleared
\* and the analysis printed, on Err the ? returns at once
AnalyzeContributorResume ==
    /\ pc = "analyzing"
    /\ UNCHANGED <<calls, last_call>>
    /\ \/ /\ Fails("analyze_contributor", BackendError)
          /\ AnalyzeFailed(BackendError)
          /\ UNCHANGED <<spinner, section, markdown>>
       \/ /\ Succeeds
          /\ spinner' = "cleared"
          /\ section' = "* AI Analysis"
          /\ markdown' = Append(markdown, "summary")
          /\ Goto("acknowledge")
    /\ UNCHANGED <<mode, status, chosen, answered, commitVars, contributors, contributor_items, subsection,
                   selection, contributor, commits, stats, views, analyzed>>

\* lines 160-163: wait for Enter, clear the screen, loop
Acknowledge ==
    /\ pc = "acknowledge"
    /\ Invoke(<<"read_line">>)
    /\ \/ /\ Fails("read_line", TerminalError)
          /\ ReturnErr(TerminalError)
          /\ UNCHANGED <<section, subsection, markdown, selection, contributor,
                         commits, stats>>
       \/ /\ Succeeds
          /\ section' = ""
          /\ subsection' = ""
          /\ markdown' = <<>>
          /\ selection' = <<>>
          /\ contributor' = <<>>
          /\ commits' = <<>>
          /\ stats' = ""
          /\ Goto("list")
    /\ UNCHANGED <<mode, spinner, status, chosen, answered, commitVars,
                   contributors, contributor_items, views, analyzed>>

---------------------------------------------------------------------------

Next ==
    \/ GetDiff
    \/ Generate
    \/ GenerateResume
    \/ MainMenu
    \/ TypeMenu
    \/ ConfirmMenu
    \/ StageAndCommit
    \/ AnalyzeChanges
    \/ AnalyzeChangesResume
    \/ GetContributors
    \/ ContributorMenu
    \/ FormatContributorStats
    \/ AnalyzeContributor
    \/ AnalyzeContributorResume
    \/ Acknowledge

Spec == Init /\ [][Next]_vars

\* the handler runs on one task that is never starved: every call it awaits
\* returns, so a step that can be taken is taken
LiveSpec == Spec /\ WF_vars(Next)

\* the contributor flow up to the report of the first detail view: the runs
\* in which format_contributor_stats is applied to every contributor and
\* every commit list
ReportInit == Init /\ mode = "ContributorAnalysis"
ReportNext == GetContributors \/ ContributorMenu \/ FormatContributorStats
ReportSpec == ReportInit /\ [][ReportNext]_vars

---------------------------------------------------------------------------
(* Vocabulary of the properties *)

\* the seven commit types the user is offered, as bare tokens
TypeTokens == <<"feat", "fix", "docs", "style", "refactor", "test", "chore">>

\* the two choices that confirm a commit
ConfirmLabels == {"* Stage and commit", "* Confirm and commit"}

\* the choices that ask for a new draft
RedraftLabels == {"* Regenerate message", "* Start over"}

CleanStatus == "No changes to commit. Your working directory is clean.\n"
SuccessStatus == "Changes committed successfully!"

ColonCount(s) == Cardinality({i \in 1..Len(s) : SubSeq(s, i, i) = ":"})

\* everything after the first colon of s (s has one)
AfterFirstColon(s) ==
    LET i == CHOOSE k \in 1..Len(s) :
                 /\ SubSeq(s, k, k) = ":"
                 /\ \A j \in 1..(k - 1) : SubSeq(s, j, j) # ":"
    IN SubSeq(s, i + 1, Len(s))

\* the type menu has just been answered: new_message holds the edit of the
\* draft, and chosen the type's menu label
TypeEdited == pc = "confirm_menu"

\* the edited message is the token of the chosen type, ": ", and description
EditedIs(description) ==
    \E t \in 1..Len(TypeTokens) :
        /\ chosen = types[t]
        /\ new_message = TypeTokens[t] \o ": " \o description

\* the collaborator op has failed
Failed(op) == failure # <<>> /\ failure[1] = op

\* a failure ended the run: the handler returned that error, and no
\* collaborator was called after the call that failed
Aborted ==
    /\ pc = "done"
    /\ result = "Err"
    /\ error = <<failure[2]>>
    /\ Total(calls) = failure[3]

---------------------------------------------------------------------------
(* Properties *)

\* C1: in the commit-message flow stage_and_commit is invoked at most once,
\* and every invocation directly follows a menu in which the user chose
\* "Stage and commit" or "Confirm and commit" (never Regenerate, Start over
\* or Cancel).
C1_CommitOnceAfterConfirm ==
    /\ calls.stage_and_commit <= 1
    /\ Len(committed) = calls.stage_and_commit
    /\ \A i \in 1..Len(committed) :
         /\ committed[i].preceded_by = "show_selection_menu"
         /\ committed[i].confirmed_by \in ConfirmLabels

\* C1 witness: a commit made after a regeneration, a type edit and a confirm
C1_Witness ==
    /\ Len(committed) = 1
    /\ committed[1].confirmed_by = "* Confirm and commit"
    /\ calls.generate_commit_message >= 2

\* C2 (as claimed): after a type edit of a draft that holds a colon, the new
\* message is the chosen type, ": ", and everything after the draft's first
\* colon, trimmed -- also when that text holds further colons.
C2_DescriptionAfterFirstColon ==
    (TypeEdited /\ ColonCount(generated) >= 1)
        => EditedIs(Trim(AfterFirstColon(generated)))

\* C3: when get_diff reports NoChanges the commit-message flow calls neither
\* the backend, nor a menu, nor stage_and_commit, and returns Ok with the
\* clean status; that status is reported in no other outcome of the flow.
C3_NoChangesIsClean ==
    mode = "CommitMessage" =>
        /\ (Failed("get_diff") /\ failure[2] = NoChanges) =>
               /\ pc = "done" /\ result = "Ok" /\ error = <<>>
               /\ status = CleanStatus
               /\ section = "* Repository Status"
               /\ calls.generate_commit_message = 0
               /\ calls.show_selection_menu = 0
               /\ calls.stage_and_commit = 0
               /\ Total(calls) = 1
        /\ status = CleanStatus =>
               /\ Failed("get_diff") /\ failure[2] = NoChanges
               /\ chosen = ""

\* C3 witness: a run in which get_diff reported NoChanges
C3_Witness ==
    /\ mode = "CommitMessage"
    /\ pc = "done"
    /\ failure = <<"get_diff", NoChanges, 1>>

\* C4: the message passed to stage_and_commit is the one current at the
\* confirmation: after "Stage and commit" the text the last
\* generate_commit_message call returned, after "Confirm and commit" the
\* edited message just presented; a run ended by Cancel commits nothing.
C4_CommitsCurrentMessage ==
    /\ \A i \in 1..Len(committed) :
         /\ committed[i].confirmed_by = "* Stage and commit"
              => committed[i].message = generated
         /\ committed[i].confirmed_by = "* Confirm and commit"
              => /\ committed[i].message = presented
                 /\ section = "* New Commit Message"
    /\ (pc = "done" /\ chosen = "* Cancel") =>
         /\ committed = <<>>
         /\ calls.stage_and_commit = 0
         /\ result = "Ok"

\* C4 witness: an edited message, different from the draft, was committed
C4_Witness ==
    /\ Len(committed) = 1
    /\ committed[1].confirmed_by = "* Confirm and commit"
    /\ committed[1].message # generated
    /\ result = "Ok"

\* C5: after any regenerations the edited message and the committed message
\* derive from the draft the last generate_commit_message call returned:
\* the edit is the edit of that draft, the commit is that draft or its edit.
C5_LatestDraftOnly ==
    /\ TypeEdited =>
         \E t \in 1..Len(types) :
             /\ chosen = types[t]
             /\ new_message = NewMessage(t - 1, generated)
    /\ \A i \in 1..Len(committed) :
         IF committed[i].confirmed_by = "* Stage and commit"
         THEN committed[i].message = generated
         ELSE \E t \in 1..Len(types) :
                  committed[i].message = NewMessage(t - 1, generated)

\* C5 witness: a commit of an edit made after a Regenerate and a Start over
C5_Witness ==
    /\ Len(committed) = 1
    /\ committed[1].confirmed_by = "* Confirm and commit"
    /\ requested = <<"", "* Regenerate message", "* Start over">>

\* C6: after a type edit of a draft without a colon the new message is the
\* chosen type, ": ", and the whole draft, trimmed.
C6_NoColonWholeDraft ==
    (TypeEdited /\ ColonCount(generated) = 0) => EditedIs(Trim(generated))

\* C6 witness: the spec's example
C6_Witness ==
    /\ TypeEdited
    /\ generated = "improve performance overall"
    /\ new_message = "chore: improve performance overall"

\* C7: after a type edit of a draft with exactly one colon the new message
\* is the bare token of the chosen type, one ": ", and the draft's
\* description (the text after the colon, trimmed).
C7_SingleColonRetype ==
    (TypeEdited /\ ColonCount(generated) = 1)
        => EditedIs(Trim(AfterFirstColon(generated)))

\* C7 witness: the spec's example
C7_Witness ==
    /\ TypeEdited
    /\ generated = "feat: add retry logic"
    /\ chosen = "fix: * Bug fix"
    /\ new_message = "fix: add retry logic"

\* C8: in the contributor browse loop the exit entry is the last menu entry
\* (index n for n contributors); selecting it ends the loop with Ok, and
\* when it is the first selection neither get_contributor_commits nor
\* analyze_contributor is ever invoked.
C8_ExitSentinelLast ==
    (mode = "ContributorAnalysis" /\ contributor_items # <<>>) =>
        LET n == Len(contributors)
        IN /\ Len(contributor_items) = n + 1
           /\ contributor_items[n + 1] = "* Exit"
           /\ \A i \in 1..n : contributor_items[i] # "* Exit"
           /\ (selection = <<n>> \/ chosen = "* Exit") =>
                 /\ selection = <<n>> /\ chosen = "* Exit"
                 /\ pc = "done" /\ result = "Ok"
                 /\ calls.show_selection_menu = 1 =>
                       /\ calls.get_contributor_commits = 0
                       /\ calls.analyze_contributor = 0

\* C8 witness: three contributors, the exit entry (index 3) selected first
C8_Witness ==
    /\ Len(contributors) = 3
    /\ selection = <<3>>
    /\ calls.show_selection_menu = 1
    /\ pc = "done"

\* C9: when analyze_contributor or get_contributor_commits fails in a
\* detail view, the flow returns that failure: the list is not presented
\* again and no collaborator is called after the failed call.
C9_ReportFailureAborts ==
    (Failed("analyze_contributor") \/ Failed("get_contributor_commits"))
        => Aborted

\* C9 witness: analyze_contributor failed in the second detail view
C9_Witness ==
    /\ Failed("analyze_contributor")
    /\ calls.analyze_contributor = 2
    /\ calls.read_line = 1

\* C10: the commit-message flow retries nothing: a failed
\* generate_commit_message or stage_and_commit ends the run with that error
\* (no later call, no success report), and every generate_commit_message
\* call but the first follows a Regenerate or Start over choice.
C10_NoAutomaticRetry ==
    /\ (Failed("generate_commit_message") \/ Failed("stage_and_commit")) =>
         /\ Aborted
         /\ status # SuccessStatus
    /\ Failed("stage_and_commit") => calls.stage_and_commit = 1
    /\ Len(requested) = calls.generate_commit_message
    /\ \A i \in 1..Len(requested) :
         IF i = 1 THEN requested[i] = "" ELSE requested[i] \in RedraftLabels
    /\ calls.generate_commit_message > 1 => calls.show_selection_menu >= 1

\* C10 witness: a regeneration the user asked for failed
C10_Witness ==
    /\ Failed("generate_commit_message")
    /\ calls.generate_commit_message = 2
    /\ pc = "done"


---------------------------------------------------------------------------
(* The report text, read back line by line *)

\* the lines of a text: what lies between its line feeds
Lines(s) ==
    LET P == {i \in 1..Len(s) : SubSeq(s, i, i) = "\n"}
        n == Cardinality(P)
        pos(k) == IF k = 0 THEN 0
                  ELSE IF k = n + 1 THEN Len(s) + 1
                  ELSE CHOOSE i \in P : Cardinality({j \in P : j < i}) = k - 1
    IN [k \in 1..(n + 1) |-> SubSeq(s, pos(k - 1) + 1, pos(k) - 1)]

\* a markdown heading line
IsHeader(line) == Len(line) > 0 /\ SubSeq(line, 1, 1) = "#"

\* the heading lines of a text, in order
Headers(text) == SelectSeq(Lines(text), IsHeader)

\* the section headers of the contributor report, in the specified order
SectionHeaders == <<"### Statistics", "### Most frequently modified files",
                    "### File type distribution", "### Largest contributions",
                    "### Recent commits", "### Modified files">>

\* the lines under the first heading line equal to header, up to the blank
\* line that separates the section from the next heading
SectionBody(text, header) ==
    LET L == Lines(text)
        H == {i \in 1..Len(L) : L[i] = header}
        h == CHOOSE i \in H : \A j \in H : i <= j
        N == {i \in (h + 1)..Len(L) : IsHeader(L[i])}
    IN IF H = {} THEN <<>>
       ELSE IF N = {} THEN SubSeq(L, h + 1, Len(L))
       ELSE SubSeq(L, h + 1, (CHOOSE i \in N : \A j \in N : i <= j) - 2)

\* a report has been built in the current detail view
ReportBuilt == stats # "" /\ contributor # <<>>

\* the browse loop of the contributor flow is running
Browsing ==
    mode = "ContributorAnalysis"
        /\ pc \in {"list", "format", "analyze", "analyzing", "acknowledge"}

---------------------------------------------------------------------------
(* Properties, continued *)

\* C11: in all three flows a collaborator failure makes the handler return
\* that failure, with no further collaborator call; the handler returns
\* success after a failure only when the failure is NoChanges, reported by
\* get_diff in the commit-message flow or by analyze_changes in the
\* file-analysis flow.
C11_FailuresPropagate ==
    failure # <<>> =>
        IF failure[2] = NoChanges
              /\ \/ mode = "CommitMessage" /\ failure[1] = "get_diff"
                 \/ mode = "FileAnalysis" /\ failure[1] = "analyze_changes"
        THEN pc = "done" /\ result = "Ok" /\ Total(calls) = failure[3]
        ELSE Aborted

\* an analysis backend failure in the file-analysis flow was returned
C11_Witness ==
    /\ mode = "FileAnalysis"
    /\ Failed("analyze_changes")
    /\ failure[2] = BackendError
    /\ Aborted

\* C12: building the contributor report is pure: the step that builds it
\* accesses no collaborator, prints nothing and cannot fail.
C12_ReportIsPure ==
    [][pc = "format" =>
          /\ calls' = calls
          /\ subsection' = subsection
          /\ result' = "running"]_vars

\* C13: the report holds the contributor heading and the six section
\* headers, each exactly once and in the fixed order, whatever collections
\* are empty; an empty collection leaves an empty body under its header.
C13_AllHeadersInOrder ==
    ReportBuilt =>
        LET c == contributor[1]
        IN /\ Headers(stats) =
                  <<"## Contributor: " \o c.name \o " <" \o c.email \o ">">>
                      \o SectionHeaders
           /\ c.most_modified_files = <<>> =>
                  SectionBody(stats, SectionHeaders[2]) = <<"">>
           /\ c.file_types = <<>> =>
                  SectionBody(stats, SectionHeaders[3]) = <<"">>
           /\ c.largest_commits = <<>> =>
                  SectionBody(stats, SectionHeaders[4]) = <<"">>
           /\ commits = <<>> =>
                  SectionBody(stats, SectionHeaders[5]) = <<"">>
           /\ c.files_changed = <<>> =>
                  SectionBody(stats, SectionHeaders[6]) = <<"">>

\* a report was built for a contributor with largest commits only, who has no
\* recent commit
C13_Witness ==
    /\ ReportBuilt
    /\ contributor[1].files_changed = <<>>
    /\ contributor[1].largest_commits # <<>>
    /\ commits = <<>>

\* the contributors, and their menu entries, are those of the loop's start
C14_Menu ==
    Browsing =>
        /\ Len(contributor_items) = Len(contributors) + 1
        /\ contributor_items[Len(contributor_items)] = "* Exit"
        /\ \A i \in 1..Len(contributors) :
              contributor_items[i] = ContributorItem(contributors[i])
        /\ contributor # <<>> =>
              /\ selection # <<>>
              /\ selection[1] < Len(contributors)
              /\ contributor[1] = contributors[selection[1] + 1]
              /\ chosen = contributor_items[selection[1] + 1]
              /\ chosen = ContributorItem(contributor[1])

\* no step of the browse loop changes the contributors or the menu entries
C14_Frame ==
    Browsing =>
        /\ contributors' = contributors
        /\ contributor_items' = contributor_items

\* C14: throughout the browse loop the contributor list and the menu never
\* change, the menu has one entry per contributor and the exit entry last,
\* and a selection of entry i views contributors[i], the contributor that
\* entry was built from.
C14_StableListAndIndex == [](C14_Menu) /\ [][C14_Frame]_vars

\* the last of three contributors is viewed, in the second view of the run
C14_Witness ==
    /\ Browsing
    /\ Len(contributors) = 3
    /\ selection = <<2>>
    /\ contributor = <<contributors[3]>>
    /\ views = 2

\* C15: the Recent commits section of the report holds exactly the first
\* min(5, n) of the n commits returned, in their order.
C15_RecentIsFirstFive ==
    ReportBuilt =>
        LET n == IF Len(commits) < 5 THEN Len(commits) ELSE 5
        IN SectionBody(stats, "### Recent commits") =
               Lines(Join([i \in 1..n |-> "- " \o commits[i]], "\n"))

\* a report was built from more than five commits
C15_Witness == ReportBuilt /\ Len(commits) > 5

\* a draft was asked for and the request was answered or refused
Drafted ==
    mode = "CommitMessage" /\ pc \notin {"execute", "generate"}
        /\ ~Failed("get_diff")

\* C16 as stated: in every run the number of generate_commit_message calls is
\* one more than the number of Regenerate and Start over choices.
C16_OneCallPerDraft ==
    Drafted => calls.generate_commit_message = 1 + redrafts

\* C16, amended: every entry into drafting calls generate_commit_message
\* once, unless the progress indicator could not be created, which ends the
\* run before the call; every call after the first was asked for by
\* Regenerate or Start over, so no other choice reaches the backend.
C16_OneCallPerDraftUnlessNoSpinner ==
    /\ Drafted =>
          calls.generate_commit_message
              + (IF Failed("create_spinner") THEN 1 ELSE 0) = 1 + redrafts
    /\ mode = "CommitMessage" =>
          /\ Len(requested) = calls.generate_commit_message
          /\ \A i \in 1..Len(requested) :
                IF i = 1 THEN requested[i] = ""
                ELSE requested[i] \in RedraftLabels

\* the third draft of a run, asked for by Regenerate and by Start over, is
\* on display
C16_Witness ==
    /\ pc = "main_menu"
    /\ redrafts = 2
    /\ calls.generate_commit_message = 3
    /\ \E i, j \in 1..Len(requested) :
          /\ requested[i] = "* Regenerate message"
          /\ requested[j] = "* Start over"

\* C17: absent failures, every selection of a contributor entry is followed
\* by one get_contributor_commits call, then one analyze_contributor call on
\* the report built for that contributor from those commits, then one
\* acknowledgement read, then the list again; the analyses number the
\* selections, and nothing of a detail view is kept for the next.
C17_OneAnalysisPerView ==
    (mode = "ContributorAnalysis" /\ failure = <<>> /\ pc # "execute") =>
        /\ Len(analyzed) = calls.analyze_contributor
        /\ calls.show_selection_menu =
               views + (IF pc = "done" THEN 1 ELSE 0)
        /\ calls.get_contributor_commits =
               IF pc = "format" THEN views - 1 ELSE views
        /\ calls.analyze_contributor =
               IF pc \in {"format", "analyze"} THEN views - 1 ELSE views
        /\ calls.read_line =
               IF pc \in {"format", "analyze", "analyzing", "acknowledge"}
               THEN views - 1 ELSE views
        /\ pc \in {"analyzing", "acknowledge"} =>
               /\ analyzed[views] = Report(contributor[1], commits)
               /\ chosen = ContributorItem(contributor[1])
        /\ pc = "list" =>
               /\ selection = <<>> /\ contributor = <<>> /\ commits = <<>>
               /\ stats = "" /\ markdown = <<>>

\* two contributors were viewed and analysed, each on a report of their own
C17_Witness ==
    /\ pc = "list"
    /\ failure = <<>>
    /\ views = 2
    /\ calls.analyze_contributor = 2
    /\ analyzed[1] # analyzed[2]

\* after a successful commit, and after Cancel, the run is over
C18_Terminal ==
    (status = SuccessStatus \/ chosen = "* Cancel") =>
        /\ pc = "done"
        /\ result = "Ok"
        /\ last_call = IF status = SuccessStatus THEN "stage_and_commit"
                       ELSE "show_selection_menu"

\* the user has chosen to commit or to cancel
C18_Decided == chosen \in ConfirmLabels \cup {"* Cancel"}

\* the run is over, with success unless a collaborator failed
C18_Finished == pc = "done" /\ (failure = <<>> => result = "Ok")

\* C18: a successful commit and Cancel are terminal: no draft, menu or commit
\* follows them; and once the user chooses to commit or to cancel the run
\* ends, with success when no collaborator fails.
C18_CommittedAndCancelledEnd ==
    [](C18_Terminal) /\ (C18_Decided ~> C18_Finished)

\* the edited message of a regenerated draft has been committed
C18_Witness ==
    /\ status = SuccessStatus
    /\ chosen = "* Confirm and commit"
    /\ redrafts > 0
    /\ pc = "done"

\* the handler is suspended in a backend call made under the indicator
Awaiting == pc \in {"generating", "analyzing_changes", "analyzing"}

\* C19: a progress indicator that was started is cleared before the flow
\* prints, prompts or returns, also when the call made under it fails:
\* it spins only while the backend call is awaited.
C19_SpinnerCleared == spinner = "spinning" => Awaiting

\* the last menu selection named no arm of its match but the catch-all
Unexpected ==
    /\ answered # <<>>
    /\ \/ answered[1] = "main" /\ answered[2] \notin {0, 1, 2}
       \/ answered[1] = "confirm" /\ answered[2] \notin {0, 1}

\* C20: a selection outside the named arms is taken as Cancel: the run ends
\* with success, nothing is committed and no call follows the menu.
C20_UnexpectedIsCancel ==
    Unexpected =>
        /\ pc = "done"
        /\ result = "Ok"
        /\ last_call = "show_selection_menu"
        /\ calls.stage_and_commit = 0
        /\ committed = <<>>
        /\ Len(requested) = 1 + redrafts

\* the confirmation menu returned an index that is none of its entries
C20_Witness ==
    /\ answered = <<"confirm", Len(confirm_options)>>
    /\ chosen = ""
    /\ new_message = ""
    /\ pc = "done"

===========================================================================
